---- MODULE Spec2Model ----
(***************************************************************************)
(* Model of moonraker/components/klippy_apis.py (class KlippyAPI).         *)
(*                                                                         *)
(* Every public coroutine of KlippyAPI is a call.  A call runs without     *)
(* interruption up to its next await of an external collaborator           *)
(* (klippy.wait_started, klippy.request), where it is suspended and any    *)
(* other call may run: asyncio schedules cooperatively on one thread.      *)
(***************************************************************************)
EXTENDS Integers, Sequences, FiniteSets, TLC

\* Number of calls made on the component in one behaviour.
MaxCalls == 2

\* File sizes and free space range over 0..MaxSize.
MaxSize == 3

Calls == 1..MaxCalls

----------------------------------------------------------------------------
\* Endpoints

INFO_ENDPOINT == "info"
ESTOP_ENDPOINT == "emergency_stop"
LIST_EPS_ENDPOINT == "list_endpoints"
GCODE_ENDPOINT == "gcode/script"
SUBSCRIPTION_ENDPOINT == "objects/subscribe"
STATUS_ENDPOINT == "objects/query"
OBJ_LIST_ENDPOINT == "objects/list"
GC_OUTPUT_ENDPOINT == "gcode/subscribe_output"
REG_METHOD_ENDPOINT == "register_remote_method"

----------------------------------------------------------------------------
\* Python values that travel through the request bridge: defaults, replies,
\* return values.  A value is a dict (with or without the keys 'status' and
\* 'objects') or not a dict; id tells values apart.

NoKey == "<no key>"

Scalar(s) == [dict |-> FALSE, id |-> s, status |-> NoKey, objects |-> NoKey]

Dict(s, st, ob) == [dict |-> TRUE, id |-> s, status |-> st, objects |-> ob]

SENTINEL == Scalar("SENTINEL")

NoValue == Scalar("<unset>")

\* Defaults a caller may pass: the sentinel, None, a dict with the keys the
\* replies carry.
Defaults ==
    {SENTINEL, Scalar("None"), Dict("fallback", "fallback.status", "fallback.objects")}

\* Replies the controller may give to a request: the dict the endpoint
\* documents, or a value of another shape.
Replies(method) ==
    IF method = OBJ_LIST_ENDPOINT
    THEN {Dict("reply", NoKey, "reply.objects"), Scalar("reply.text")}
    ELSE IF method \in {STATUS_ENDPOINT, SUBSCRIPTION_ENDPOINT}
         THEN {Dict("reply", "reply.status", NoKey), Scalar("reply.text")}
         ELSE {Scalar("reply.text")}

\* Messages of the server errors klippy.request raises.
DISCONNECTED == "Klippy Disconnected"

ServerErrors == {DISCONNECTED, "Klippy Request Error"}

\* isinstance(default, SentinelClass)
IsSentinel(default) == default = SENTINEL

\* How a coroutine ends: it returns a value or raises an error.
Returned(v) == [kind |-> "return", val |-> v, err |-> ""]

Raised(e) == [kind |-> "raise", val |-> NoValue, err |-> e]

Pending == [kind |-> "pending", val |-> NoValue, err |-> ""]

\* Outcome of klippy.request: a reply or a server error.
TransportOk(reply) == [ok |-> TRUE, reply |-> reply, err |-> ""]

TransportError(e) == [ok |-> FALSE, reply |-> NoValue, err |-> e]

Transports(method) ==
    {TransportOk(r) : r \in Replies(method)} \cup {TransportError(e) : e \in ServerErrors}

\* _send_klippy_request with "if default is None: raise" for the sentinel test.
SendResultNoneRaises(transport, default) ==
    IF transport.ok
    THEN Returned(transport.reply)
    ELSE IF default = Scalar("None")
         THEN Raised(transport.err)
         ELSE Returned(default)

\* _send_klippy_request after its await: try / except self.server.error.
SendResult(transport, default) ==
    IF transport.ok
    THEN Returned(transport.reply)
    ELSE IF IsSentinel(default)
         THEN Raised(transport.err)
         ELSE Returned(default)

\* The result is handed on as it came.
UnwrapNever(result, key) == result

\* if isinstance(result, dict) and key in result: return result[key]
Unwrap(result, key) ==
    IF key = "status"
    THEN IF result.dict /\ result.status # NoKey THEN Scalar(result.status) ELSE result
    ELSE IF result.dict /\ result.objects # NoKey THEN Scalar(result.objects) ELSE result

\* The tail of get_object_list, query_objects and subscribe_objects: an error
\* of the send propagates, a result is unwrapped.
UnwrapOutcome(sendOutcome, key) ==
    IF sendOutcome.kind = "raise"
    THEN sendOutcome
    ELSE Returned(Unwrap(sendOutcome.val, key))

----------------------------------------------------------------------------
\* Subscriptions: Dict[str, Optional[List[Any]]]

Objects == {"extruder", "toolhead"}

\* The fields callers name, per object.
Fields == {"temperature", "target", "position"}

\* items: None (all fields) or a list of field names.
AllFields == [all |-> TRUE, fields |-> <<>>]

FieldList(s) == [all |-> FALSE, fields |-> s]

\* Lists a caller may pass for an object: empty, one field, a repeated field.
FieldLists(obj) ==
    IF obj = "extruder"
    THEN { <<>>, <<"temperature">>, <<"target">>, <<"target", "target">> }
    ELSE { <<"position">> }

ItemChoices(obj) == {AllFields} \cup {FieldList(s) : s \in FieldLists(obj)}

\* The objects argument of subscribe_objects: a dict over some of the objects.
Requests ==
    UNION { {r \in [D -> UNION {ItemChoices(o) : o \in D}] :
                \A o \in D : r[o] \in ItemChoices(o)} : D \in SUBSET Objects }

\* set(list)
ToSet(s) == {s[i] : i \in 1..Len(s)}

\* list(set): every element once, in an order the caller cannot rely on.
ToLists(S) == {s \in [1..Cardinality(S) -> S] : ToSet(s) = S}

\* The branch with the new items stored over the old ones.
MergeItemsOverwrite(prev, items) == {items}

\* The branch with only "items is None" tested.
MergeItemsNarrow(prev, items) ==
    IF items.all
    THEN {AllFields}
    ELSE {FieldList(s) : s \in ToLists(ToSet(prev.fields) \cup ToSet(items.fields))}

\* The branch of subscribe_objects for an object already subscribed.
MergeItems(prev, items) ==
    IF items.all \/ prev.all
    THEN {AllFields}
    ELSE {FieldList(s) : s \in ToLists(ToSet(prev.fields) \cup ToSet(items.fields))}

\* One pass of the loop body for object obj.
MergeEntry(subscription, obj, objects) ==
    IF obj \notin DOMAIN objects
    THEN {subscription[obj]}
    ELSE IF obj \in DOMAIN subscription
         THEN MergeItems(subscription[obj], objects[obj])
         ELSE {objects[obj]}

\* The registry replaced by the request.
MergeSubscriptionReplace(subscription, objects) == {objects}

\* The registries the for loop of subscribe_objects may leave.
MergeSubscription(subscription, objects) ==
    LET dom == DOMAIN subscription \cup DOMAIN objects
        cand == UNION {MergeEntry(subscription, o, objects) : o \in dom}
    IN  {h \in [dom -> cand] : \A o \in dom : h[o] \in MergeEntry(subscription, o, objects)}

----------------------------------------------------------------------------
\* Job files and the cache directory

\* A path is the sequence of its segments: "sub/b.gcode" is <<"sub", "b.gcode">>
\* and a leading '/' shows as an empty first segment.
CACHE_DIR == ".cache"

\* File names callers pass to start_print.
Filenames ==
    { <<"a.gcode">>, <<"", "sub", "b.gcode">>, <<CACHE_DIR, "a.gcode">>,
      <<"my\"job.gcode">> }

\* The files of <home>/gcode_files and their sizes (os.path.getsize).
gcode_files ==
    [f \in { <<"a.gcode">>, <<"sub", "b.gcode">>, <<"my\"job.gcode">> } |->
        IF f = <<"a.gcode">> THEN 1 ELSE 2]

\* if filename[0] == '/': filename = filename[1:]
StripSlash(filename) ==
    IF Len(filename) > 1 /\ filename[1] = "" THEN Tail(filename) ELSE filename

\* segment.replace("\"", "\\\"")
EscapeSegment(seg) == IF seg = "my\"job.gcode" THEN "my\\\"job.gcode" ELSE seg

\* filename.replace("\"", "\\\"")
Escape(filename) == [i \in 1..Len(filename) |-> EscapeSegment(filename[i])]

\* The test looks at the file's own name instead of at its directory.
FirstSegmentOfTail(filename) == filename[Len(filename)]

\* os.path.split(filename)[0].split(os.path.sep)[0]
FirstSegment(filename) == IF Len(filename) > 1 THEN filename[1] ELSE ""

\* os.path.basename(filename)
Basename(filename) == filename[Len(filename)]

\* os.path.join(".cache", os.path.basename(filename))
CacheTarget(filename) == <<CACHE_DIR, Basename(filename)>>

\* The cache directory: absent, or a set of files, each with a name and the
\* path of the job file it is a whole copy of (PARTIAL for a truncated copy).
PARTIAL == <<"<partial>">>

CacheFile(name, content) == [name |-> name, content |-> content]

AbsentDir == [exists |-> FALSE, files |-> {}]

EmptyDir == [exists |-> TRUE, files |-> {}]

\* What an earlier run may have left: nothing, an empty directory, a staged
\* job, the leftover of an interrupted staging.
InitialCaches ==
    { AbsentDir, EmptyDir,
      [exists |-> TRUE, files |-> {CacheFile("old.gcode", <<"old.gcode">>)}],
      [exists |-> TRUE, files |-> {CacheFile("a.gcode", PARTIAL)}] }

\* The directory made if missing, its content kept.
RebuildCacheKeep(dir) == [exists |-> TRUE, files |-> dir.files]

\* if not os.path.exists(cache_path): os.makedirs(cache_path)
\* shutil.rmtree(cache_path); os.makedirs(cache_path)
RebuildCache(dir) == EmptyDir

Event(name, text, arg) == [name |-> name, text |-> text, arg |-> arg]

LOW_SPACE_MSG == "!! Insufficient disk space, unable to read the file."

INSUFFICIENT == "Insufficient disk space, unable to read the file."

FILE_NOT_FOUND == "FileNotFoundError"

\* if (filesize <= free_space)
FitsOrEqual(filesize, free) == filesize <= free

\* if (filesize < free_space)
Fits(filesize, free) == filesize < free

\* copy_file_to_cache that copies first and checks the space afterwards.
CopyThenCheck(origin, target, dir, files, free) ==
    IF origin \notin DOMAIN files
    THEN [err |-> FILE_NOT_FOUND, dir |-> dir, events |-> <<>>]
    ELSE IF files[origin] < free
         THEN [err |-> "",
               dir |-> [dir EXCEPT !.files = @ \cup {CacheFile(target[Len(target)], origin)}],
               events |-> <<>>]
         ELSE [err |-> "Insufficient disk space, unable to read the file.",
               dir |-> [dir EXCEPT !.files =
                           @ \cup {CacheFile(target[Len(target)], <<"<partial>">>)}],
               events |-> <<[name |-> "server:gcode_response",
                             text |-> "!! Insufficient disk space, unable to read the file.",
                             arg |-> <<>>]>>]

\* copy_file_to_cache(origin, target) on directory dir, with files the sizes
\* of the job files on disk and free the free space statvfs reports: the
\* directory and the events it leaves, and the error it raises ("" for none).
CopyFileToCache(origin, target, dir, files, free) ==
    IF origin \notin DOMAIN files
    THEN [err |-> FILE_NOT_FOUND, dir |-> dir, events |-> <<>>]
    ELSE IF Fits(files[origin], free)
         THEN [err |-> "",
               dir |-> [dir EXCEPT !.files =
                           {f \in @ : f.name # Basename(target)}
                               \cup {CacheFile(Basename(target), origin)}],
               events |-> <<>>]
         ELSE [err |-> INSUFFICIENT, dir |-> dir,
               events |-> <<Event("server:gcode_response", LOW_SPACE_MSG, <<>>)>>]

----------------------------------------------------------------------------
\* State

VARIABLES
    host_subscription,  \* self.host_subscription
    calls,              \* the coroutines: position, arguments, locals, outcome
    sent,               \* methods of the requests handed to klippy.request, in order
    events,             \* events handed to server.send_event, in order
    trace,              \* per call, what it did to its collaborators, in order
    asked,              \* per object, what subscribe_objects calls asked for so far
    klippy_state,       \* the controller: "NotStarted" or "Started"
    cache,              \* the directory <home>/gcode_files/.cache
    free_space          \* stat.f_frsize * stat.f_bfree of "/"

vars ==
    <<host_subscription, calls, sent, events, trace, asked, klippy_state, cache,
      free_space>>

envVars == <<klippy_state, cache, free_space>>

Request(method, params) == [method |-> method, params |-> params]

NoRequest == Request("", <<>>)

\* pc: "idle" (not called yet), "wait" (in klippy.wait_started), "reply" (in
\* klippy.request), "done".  filename is start_print's local of that name,
\* staged tells whether the call went through the staging branch, started is
\* what wait_started returned.
IdleCall ==
    [op |-> "", pc |-> "idle", default |-> SENTINEL, request |-> NoRequest,
     outcome |-> Pending, arg |-> <<>>, filename |-> <<>>, staged |-> FALSE,
     started |-> "unset"]

\* A call that is over: its frame (request, locals) is gone, what it was
\* called with and how it ended stays on record.
Finish(call, outcome) ==
    [call EXCEPT !.pc = "done", !.request = NoRequest, !.filename = <<>>,
                 !.outcome = outcome]

\* Calls are numbered in the order they are made.
CanStart(c) ==
    /\ calls[c].pc = "idle"
    /\ \A d \in Calls : d < c => calls[d].pc # "idle"

NothingAsked == [all |-> FALSE, fields |-> {}, any |-> FALSE]

Sizes == 0..MaxSize

Init ==
    /\ host_subscription = <<>>
    /\ calls = [c \in Calls |-> IdleCall]
    /\ sent = <<>>
    /\ events = <<>>
    /\ trace = [c \in Calls |-> <<>>]
    /\ asked = [o \in Objects |-> NothingAsked]
    /\ klippy_state = "NotStarted"
    /\ cache \in InitialCaches
    /\ free_space \in Sizes

\* One entry of trace[c]: call c handed a request for method name to
\* klippy.request (kind "request"), ran the file-system call name (kind "fs"),
\* or handed the event name with that text to server.send_event (kind "event").
Step(kind, name, c) == [kind |-> kind, name |-> name, text |-> "", call |-> c]

EventStep(c, event) == [Step("event", event.name, c) EXCEPT !.text = event.text]

EventSteps(c, evts) == [i \in 1..Len(evts) |-> EventStep(c, evts[i])]

\* self.klippy.request(WebRequest(method, params, conn=self)) up to its
\* suspension: the request is with the transport, call c awaits the reply.
Dispatch(c, method, params) ==
    [calls[c] EXCEPT !.pc = "reply", !.request = Request(method, params)]

----------------------------------------------------------------------------
\* subscribe_objects

\* What the calls have asked for once objects is asked too.
Ask(a, objects) ==
    [o \in Objects |->
        IF o \in DOMAIN objects
        THEN [all |-> a[o].all \/ objects[o].all,
              fields |-> a[o].fields \cup ToSet(objects[o].fields),
              any |-> TRUE]
        ELSE a[o]]

\* The request carrying only what this call asks for.
SubscribeParamsDelta(subscription, objects) == objects

\* params = {'objects': self.host_subscription}
SubscribeParams(subscription, objects) == subscription

\* subscribe_objects up to its await: merge, then hand the whole registry to
\* klippy.request.
SubscribeObjects(c, objects, default) ==
    /\ CanStart(c)
    /\ \E merged \in MergeSubscription(host_subscription, objects) :
        /\ host_subscription' = merged
        /\ calls' = [calls EXCEPT ![c] =
                        [Dispatch(c, SUBSCRIPTION_ENDPOINT, SubscribeParams(merged, objects))
                            EXCEPT !.op = "subscribe_objects", !.default = default]]
    /\ sent' = Append(sent, SUBSCRIPTION_ENDPOINT)
    /\ trace' = [trace EXCEPT ![c] = Append(@, Step("request", SUBSCRIPTION_ENDPOINT, c))]
    /\ asked' = Ask(asked, objects)
    /\ UNCHANGED <<events, envVars>>

\* A failed request takes the registry back to empty.
SubscribeReplyRollback(c, transport) ==
    /\ calls[c].op = "subscribe_objects"
    /\ calls[c].pc = "reply"
    /\ calls' = [calls EXCEPT ![c] =
                    Finish(@, UnwrapOutcome(
                                  SendResult(transport, calls[c].default), "status"))]
    /\ host_subscription' = IF transport.ok THEN host_subscription ELSE <<>>
    /\ UNCHANGED <<sent, events, trace, asked, envVars>>

\* subscribe_objects from its await on: the send resolves, the result is
\* unwrapped.
SubscribeReply(c, transport) ==
    /\ calls[c].op = "subscribe_objects"
    /\ calls[c].pc = "reply"
    /\ calls' = [calls EXCEPT ![c] =
                    Finish(@, UnwrapOutcome(
                                  SendResult(transport, calls[c].default), "status"))]
    /\ UNCHANGED <<host_subscription, sent, events, trace, asked, envVars>>

----------------------------------------------------------------------------
\* start_print, do_restart

\* script = f'SDCARD_PRINT_FILE FILENAME="{filename}"', or the restart gcode
Script(cmd, filename) == [cmd |-> cmd, filename |-> filename]

RestartGcodes == {"RESTART", "FIRMWARE_RESTART"}

\* self.server.send_event("server:gcode_response", "// metadata=" + ...)
MetadataEvent(filename) == Event("server:gcode_response", "// metadata=", filename)

\* The metadata event goes out before the file is in the cache.
StagingTraceEventFirst(c, copy, filename) ==
    [trace EXCEPT ![c] =
        @
        \o <<Step("fs", "os.makedirs if missing", c), Step("fs", "shutil.rmtree", c),
             Step("fs", "os.makedirs", c)>>
        \o (IF copy.err = "" THEN <<EventStep(c, MetadataEvent(filename))>> ELSE <<>>)
        \o EventSteps(c, copy.events)
        \o (IF copy.err = "" THEN <<Step("fs", "shutil.copy", c)>> ELSE <<>>)]

\* The staging branch of start_print in the order of its statements: make the
\* cache directory if it is missing, remove it, make it again,
\* copy_file_to_cache (its copy or its event), the metadata event.
StagingTrace(c, copy, filename) ==
    [trace EXCEPT ![c] =
        @
        \o <<Step("fs", "os.makedirs if missing", c), Step("fs", "shutil.rmtree", c),
             Step("fs", "os.makedirs", c)>>
        \o (IF copy.err = "" THEN <<Step("fs", "shutil.copy", c)>> ELSE <<>>)
        \o EventSteps(c, copy.events)
        \o (IF copy.err = "" THEN <<EventStep(c, MetadataEvent(filename))>> ELSE <<>>)]

\* start_print up to await self.klippy.wait_started(): normalise the name,
\* stage the file unless the name is rooted at the cache directory.
StartPrint(c, name) ==
    /\ CanStart(c)
    /\ LET filename == Escape(StripSlash(name))
           call == [calls[c] EXCEPT !.op = "start_print", !.arg = name]
       IN  IF FirstSegment(filename) # CACHE_DIR
           THEN LET target == CacheTarget(filename)
                    copy == CopyFileToCache(filename, target, RebuildCache(cache),
                                            gcode_files, free_space)
                IN  /\ cache' = copy.dir
                    /\ trace' = StagingTrace(c, copy, filename)
                    /\ IF copy.err = ""
                       THEN /\ events' = events \o copy.events \o
                                   <<MetadataEvent(filename)>>
                            /\ calls' = [calls EXCEPT ![c] =
                                   [call EXCEPT !.pc = "wait", !.filename = target,
                                                !.staged = TRUE]]
                       ELSE /\ events' = events \o copy.events
                            /\ calls' = [calls EXCEPT ![c] =
                                   Finish([call EXCEPT !.staged = TRUE],
                                          Raised(copy.err))]
           ELSE /\ calls' = [calls EXCEPT ![c] =
                                [call EXCEPT !.pc = "wait", !.filename = filename]]
                /\ UNCHANGED <<cache, events, trace>>
    /\ UNCHANGED <<host_subscription, sent, asked, klippy_state, free_space>>

\* do_restart up to await self.klippy.wait_started()
DoRestart(c, gc) ==
    /\ CanStart(c)
    /\ calls' = [calls EXCEPT ![c] =
                    [@ EXCEPT !.op = "do_restart", !.pc = "wait", !.arg = <<gc>>]]
    /\ UNCHANGED <<host_subscription, sent, events, trace, asked, envVars>>

\* The script the call sends once wait_started is over.
ScriptOf(call) ==
    IF call.op = "start_print"
    THEN Script("SDCARD_PRINT_FILE", call.filename)
    ELSE Script(call.arg[1], <<>>)

\* wait_started is over with value started, which the caller drops; run_gcode
\* hands the script to klippy.request.
AfterWait(c, started) ==
    /\ calls' = [calls EXCEPT ![c] =
                    [Dispatch(c, GCODE_ENDPOINT, ScriptOf(calls[c]))
                        EXCEPT !.started = started]]
    /\ sent' = Append(sent, GCODE_ENDPOINT)
    /\ trace' = [trace EXCEPT ![c] = Append(@, Step("request", GCODE_ENDPOINT, c))]
    /\ UNCHANGED <<host_subscription, events, asked, envVars>>

\* wait_started returns True: the controller has started.
WaitStarted(c) ==
    /\ calls[c].pc = "wait"
    /\ klippy_state = "Started"
    /\ AfterWait(c, "True")

\* wait_started has blocked for the timeout and returns False.
WaitTimeout(c) ==
    /\ calls[c].pc = "wait"
    /\ klippy_state = "NotStarted"
    /\ AfterWait(c, "False")

READINESS_TIMEOUT == "ReadinessTimeout"

\* wait_started fails when the timeout elapses.
WaitRaise(c) ==
    /\ calls[c].pc = "wait"
    /\ klippy_state = "NotStarted"
    /\ calls' = [calls EXCEPT ![c] =
                    Finish([@ EXCEPT !.started = "raised"], Raised(READINESS_TIMEOUT))]
    /\ UNCHANGED <<host_subscription, sent, events, trace, asked, envVars>>

\* The except branch with no test of the message: every error is taken for
\* the disconnect.
RestartResultAnyError(outcome) ==
    IF outcome.kind = "raise" THEN Returned(Scalar("ok")) ELSE outcome

\* The try / except of do_restart around run_gcode.
RestartResult(outcome) ==
    IF outcome.kind = "raise" /\ outcome.err = DISCONNECTED
    THEN Returned(Scalar("ok"))
    ELSE outcome

\* start_print and do_restart from the await of the reply on.
GcodeReply(c, transport) ==
    /\ calls[c].op \in {"start_print", "do_restart"}
    /\ calls[c].pc = "reply"
    /\ LET result == SendResult(transport, SENTINEL)
       IN  calls' = [calls EXCEPT ![c] =
                        Finish(@, IF calls[c].op = "do_restart"
                                  THEN RestartResult(result)
                                  ELSE result)]
    /\ UNCHANGED <<host_subscription, sent, events, trace, asked, envVars>>

\* The controller reaches its started state.
KlippyStarted ==
    /\ klippy_state = "NotStarted"
    /\ klippy_state' = "Started"
    /\ UNCHANGED <<host_subscription, calls, sent, events, trace, asked, cache, free_space>>

----------------------------------------------------------------------------
\* The operations that send one request and return its result

\* The request is handed over first, the events follow.
CallTraceEventsLast(c, evts, method) ==
    [trace EXCEPT ![c] = Append(@, Step("request", method, c)) \o EventSteps(c, evts)]

\* self.server.send_event(...) comes before self._send_klippy_request(...).
CallTrace(c, evts, method) ==
    [trace EXCEPT ![c] = Append(@ \o EventSteps(c, evts), Step("request", method, c))]

\* A failed request is sent once more while its reply is awaited.
FacadeReplyRetry(c, transport) ==
    /\ calls[c].op \in {"run_gcode", "pause_print", "resume_print", "cancel_print",
                        "list_endpoints", "emergency_stop", "get_klippy_info",
                        "subscribe_gcode_output", "register_method",
                        "get_object_list", "query_objects"}
    /\ calls[c].pc = "reply"
    /\ transport \in Transports(calls[c].request.method)
    /\ IF transport.ok
       THEN /\ calls' = [calls EXCEPT ![c] =
                            Finish(@, Returned(transport.reply))]
            /\ UNCHANGED <<sent, trace>>
       ELSE /\ sent' = Append(sent, calls[c].request.method)
            /\ trace' = [trace EXCEPT ![c] =
                             Append(@, Step("request", calls[c].request.method, c))]
            /\ UNCHANGED calls
    /\ UNCHANGED <<host_subscription, events, asked, envVars>>

\* An operation up to its await of klippy.request: it sends its events, then
\* hands the request to the transport.
Call(c, op, evts, method, params, default) ==
    /\ CanStart(c)
    /\ events' = events \o evts
    /\ calls' = [calls EXCEPT ![c] =
                    [Dispatch(c, method, params) EXCEPT !.op = op, !.default = default]]
    /\ sent' = Append(sent, method)
    /\ trace' = CallTrace(c, evts, method)
    /\ UNCHANGED <<host_subscription, asked, envVars>>

Requested(name) == <<Event(name, "", <<>>)>>

RunGcode(c, script, default) ==
    Call(c, "run_gcode", <<>>, GCODE_ENDPOINT, Script(script, <<>>), default)

PausePrint(c, default) ==
    Call(c, "pause_print", Requested("klippy_apis:pause_requested"),
         "pause_resume/pause", <<>>, default)

ResumePrint(c, default) ==
    Call(c, "resume_print", Requested("klippy_apis:resume_requested"),
         "pause_resume/resume", <<>>, default)

CancelPrint(c, default) ==
    Call(c, "cancel_print", Requested("klippy_apis:cancel_requested"),
         "pause_resume/cancel", <<>>, default)

ListEndpoints(c, default) ==
    Call(c, "list_endpoints", <<>>, LIST_EPS_ENDPOINT, <<>>, default)

EmergencyStop(c) ==
    Call(c, "emergency_stop", <<>>, ESTOP_ENDPOINT, <<>>, SENTINEL)

\* params = {'client_info': {'program': "Moonraker", 'version': ver}} if send_id
ClientInfo(send_id) ==
    IF send_id
    THEN [client_info |-> [program |-> "Moonraker", version |-> "software_version"]]
    ELSE <<>>

GetKlippyInfo(c, send_id, default) ==
    Call(c, "get_klippy_info", <<>>, INFO_ENDPOINT, ClientInfo(send_id), default)

GetObjectList(c, default) ==
    Call(c, "get_object_list", <<>>, OBJ_LIST_ENDPOINT, <<>>, default)

QueryObjects(c, objects, default) ==
    Call(c, "query_objects", <<>>, STATUS_ENDPOINT, objects, default)

SubscribeGcodeOutput(c) ==
    Call(c, "subscribe_gcode_output", <<>>, GC_OUTPUT_ENDPOINT,
         [response_template |-> [method |-> "process_gcode_response"]], SENTINEL)

RegisterMethod(c, method_name) ==
    Call(c, "register_method", <<>>, REG_METHOD_ENDPOINT,
         [response_template |-> [method |-> method_name],
          remote_method |-> method_name], SENTINEL)

\* The operations that return the result of _send_klippy_request as it is.
PlainOps ==
    { "run_gcode", "pause_print", "resume_print", "cancel_print", "list_endpoints",
      "emergency_stop", "get_klippy_info", "subscribe_gcode_output", "register_method" }

\* What the operation makes of the result of _send_klippy_request.
FacadeResult(op, result) ==
    IF op = "get_object_list"
    THEN UnwrapOutcome(result, "objects")
    ELSE IF op = "query_objects"
         THEN UnwrapOutcome(result, "status")
         ELSE result

\* These operations from the await of the reply on.
FacadeReply(c, transport) ==
    /\ calls[c].op \in PlainOps \cup {"get_object_list", "query_objects"}
    /\ calls[c].pc = "reply"
    /\ transport \in Transports(calls[c].request.method)
    /\ calls' = [calls EXCEPT ![c] =
                    Finish(@, FacadeResult(calls[c].op,
                                           SendResult(transport, calls[c].default)))]
    /\ UNCHANGED <<host_subscription, sent, events, trace, asked, envVars>>

----------------------------------------------------------------------------
\* Specifications

\* Scripts callers pass to run_gcode.
Scripts == {"G28", "M112"}

\* The environment of the calls that do not touch the file system.
InitNoFiles ==
    /\ Init
    /\ cache = AbsentDir
    /\ free_space = 0

NextSub ==
    \E c \in Calls :
        \/ \E objects \in Requests, default \in Defaults :
              SubscribeObjects(c, objects, default)
        \/ \E transport \in Transports(SUBSCRIPTION_ENDPOINT) : SubscribeReply(c, transport)

\* Calls of subscribe_objects, overlapping in every way.
SpecSub == InitNoFiles /\ [][NextSub]_vars

NextJob ==
    \/ KlippyStarted
    \/ \E c \in Calls :
        \/ \E name \in Filenames : StartPrint(c, name)
        \/ \E gc \in RestartGcodes : DoRestart(c, gc)
        \/ WaitStarted(c)
        \/ WaitTimeout(c)
        \/ WaitRaise(c)
        \/ \E transport \in Transports(GCODE_ENDPOINT) : GcodeReply(c, transport)

AllTransports ==
    UNION {Transports(m) : m \in {GCODE_ENDPOINT, STATUS_ENDPOINT, OBJ_LIST_ENDPOINT}}

NextFacade ==
    \E c \in Calls :
        \/ \E default \in Defaults :
            \/ \E script \in Scripts : RunGcode(c, script, default)
            \/ PausePrint(c, default)
            \/ ResumePrint(c, default)
            \/ CancelPrint(c, default)
            \/ ListEndpoints(c, default)
            \/ \E send_id \in BOOLEAN : GetKlippyInfo(c, send_id, default)
            \/ GetObjectList(c, default)
            \/ QueryObjects(c, [toolhead |-> FieldList(<<"position">>)], default)
        \/ EmergencyStop(c)
        \/ SubscribeGcodeOutput(c)
        \/ RegisterMethod(c, "shutdown_machine")
        \/ \E transport \in AllTransports : FacadeReply(c, transport)

NextSend ==
    \E c \in Calls :
        \/ \E script \in Scripts, default \in Defaults : RunGcode(c, script, default)
        \/ \E transport \in Transports(GCODE_ENDPOINT) : FacadeReply(c, transport)

NextUnwrap ==
    \E c \in Calls :
        \/ \E default \in Defaults :
            \/ GetObjectList(c, default)
            \/ QueryObjects(c, [toolhead |-> FieldList(<<"position">>)], default)
            \/ SubscribeObjects(c, [toolhead |-> FieldList(<<"position">>)], default)
        \/ \E transport \in AllTransports :
            \/ FacadeReply(c, transport)
            \/ SubscribeReply(c, transport)

\* Calls of the three operations that unwrap the reply; the controller may
\* answer a subscription with a reply of any of the shapes.
SpecUnwrap == InitNoFiles /\ [][NextUnwrap]_vars

\* Calls of run_gcode, which returns what _send_klippy_request returns.
SpecSend == InitNoFiles /\ [][NextSend]_vars

\* Calls of the operations that send one request and return its result.
SpecFacade == InitNoFiles /\ [][NextFacade]_vars

\* Calls of start_print and do_restart while the controller starts.
SpecJob == Init /\ [][NextJob]_vars

----------------------------------------------------------------------------
\* Properties

InFlight(c) == calls[c].pc = "reply"

Done(c) == calls[c].pc = "done"

\* Call c is made in this step.
Starts(c) == calls[c].pc = "idle" /\ calls'[c].pc # "idle"

\* C1: _send_klippy_request returns the reply when the transport succeeds,
\* whatever the default; when the transport fails with a server error it
\* raises that error if default is the sentinel and returns default otherwise.
\* Checked on the operations that return its result as it is.
C1_SendDefault ==
    [][\A c \in Calls, t \in AllTransports :
          FacadeReply(c, t) /\ calls[c].op \in PlainOps =>
              /\ t.ok => calls'[c].outcome = Returned(t.reply)
              /\ ~t.ok /\ calls[c].default = SENTINEL =>
                     calls'[c].outcome = Raised(t.err)
              /\ ~t.ok /\ calls[c].default # SENTINEL =>
                     calls'[c].outcome = Returned(calls[c].default)]_vars

\* A run_gcode call given None as default has returned None: its request failed.
C1_Witness ==
    \E c \in Calls :
        /\ Done(c)
        /\ calls[c].op = "run_gcode"
        /\ calls[c].default = Scalar("None")
        /\ calls[c].outcome = Returned(Scalar("None"))

\* C2: an object for which the calls asked finite field lists only has, as a
\* set, the union of the lists asked, in whatever order the calls came.
C2_FieldUnion ==
    \A o \in Objects :
        asked[o].any /\ ~asked[o].all =>
            /\ o \in DOMAIN host_subscription
            /\ ~host_subscription[o].all
            /\ ToSet(host_subscription[o].fields) = asked[o].fields

\* Two calls asked one field of the extruder each, the registry has both.
C2_Witness ==
    /\ Len(sent) = 2
    /\ asked["extruder"] = [all |-> FALSE, fields |-> {"temperature", "target"}, any |-> TRUE]
    /\ Len(host_subscription["extruder"].fields) = 2

\* C3: an object subscribed with all fields stays subscribed with all fields
\* in every later state.
C3_AllFieldsStays ==
    [][\A o \in DOMAIN host_subscription :
          host_subscription[o].all =>
              o \in DOMAIN host_subscription' /\ host_subscription'[o].all]_vars

\* The first call subscribed the extruder with all fields, a later call asked
\* a field list for it, and the registry still has all fields.
C3_Witness ==
    /\ Len(sent) = 2
    /\ InFlight(1)
    /\ "extruder" \in DOMAIN calls[1].request.params
    /\ calls[1].request.params["extruder"].all
    /\ asked["extruder"].fields # {}
    /\ host_subscription["extruder"].all

\* Subscription h2 has every object and field of h1.
Covers(h2, h1) ==
    \A o \in DOMAIN h1 :
        /\ o \in DOMAIN h2
        /\ h1[o].all => h2[o].all
        /\ ~h2[o].all => ToSet(h1[o].fields) \subseteq ToSet(h2[o].fields)

\* Subscription h has every object and field the calls asked for.
CoversAsked(h, a) ==
    \A o \in Objects :
        a[o].any =>
            /\ o \in DOMAIN h
            /\ a[o].all => h[o].all
            /\ ~h[o].all => a[o].fields \subseteq ToSet(h[o].fields)

\* C4: a subscribe_objects call hands exactly one objects/subscribe request to
\* the transport, whose objects are the whole registry after the merge: all
\* that this and the earlier calls asked for, and all that the requests still
\* in flight carry.  No other step sends a request.
C4_WholeRegistrySent ==
    [][/\ \A c \in Calls :
            Starts(c) =>
                /\ sent' = Append(sent, SUBSCRIPTION_ENDPOINT)
                /\ calls'[c].request = Request(SUBSCRIPTION_ENDPOINT, host_subscription')
                /\ CoversAsked(calls'[c].request.params, asked')
                /\ Covers(calls'[c].request.params, host_subscription)
                /\ \A d \in Calls :
                      InFlight(d) =>
                          Covers(calls'[c].request.params, calls[d].request.params)
       /\ (\A c \in Calls : ~Starts(c)) => sent' = sent]_vars

\* The second request carries the extruder of the first besides the toolhead.
C4_Witness ==
    /\ InFlight(1)
    /\ InFlight(2)
    /\ DOMAIN calls[1].request.params = {"extruder"}
    /\ DOMAIN calls[2].request.params = {"extruder", "toolhead"}

\* C5: however the calls and their replies interleave, the registry is the
\* cumulative merge of all that was asked: the objects asked, all fields for
\* those asked with None, else the union of the lists.
C5_CumulativeMerge ==
    \A o \in Objects :
        /\ o \in DOMAIN host_subscription <=> asked[o].any
        /\ asked[o].any =>
              /\ host_subscription[o].all <=> asked[o].all
              /\ ~asked[o].all => ToSet(host_subscription[o].fields) = asked[o].fields

\* Two calls overlapped, the second got its reply first, and the registry has
\* the objects of both.
C5_Witness ==
    /\ InFlight(1)
    /\ Done(2)
    /\ DOMAIN calls[1].request.params = {"extruder"}
    /\ DOMAIN host_subscription = {"extruder", "toolhead"}

\* C6: a gcode/script request of start_print or do_restart is with the
\* transport only when the controller has started.
C6_DispatchAfterStarted ==
    \A c \in Calls :
        calls[c].op \in {"start_print", "do_restart"} /\ InFlight(c) =>
            klippy_state = "Started"

\* C7: a call whose readiness wait ran into the timeout is over, with the
\* ReadinessTimeout failure.
C7_TimeoutFails ==
    \A c \in Calls :
        calls[c].started \in {"False", "raised"} =>
            Done(c) /\ calls[c].outcome = Raised(READINESS_TIMEOUT)

\* The name start_print works with.
Normalized(name) == Escape(StripSlash(name))

\* Call c is a start_print made in this step for a job file on disk that is not
\* named inside the cache directory.
Stages(c) ==
    /\ Starts(c)
    /\ calls'[c].op = "start_print"
    /\ FirstSegment(Normalized(calls'[c].arg)) # CACHE_DIR
    /\ Normalized(calls'[c].arg) \in DOMAIN gcode_files

StagedSize(c) == gcode_files[Normalized(calls'[c].arg)]

\* C8: start_print for a job outside the cache whose file is larger than the
\* free space fails with the insufficient-space error and leaves the cache
\* directory empty.
C8_TooLargeLeavesEmpty ==
    [][\A c \in Calls :
          Stages(c) /\ StagedSize(c) > free_space =>
              /\ calls'[c].pc = "done"
              /\ calls'[c].outcome = Raised(INSUFFICIENT)
              /\ cache'.files = {}]_vars

\* start_print("a.gcode") has failed for lack of space, the cache is empty.
C8_Witness ==
    \E c \in Calls :
        /\ Done(c)
        /\ calls[c].arg = <<"a.gcode">>
        /\ calls[c].outcome = Raised(INSUFFICIENT)
        /\ free_space = 0
        /\ cache = EmptyDir

\* C9: a staging that succeeds leaves exactly one file in the cache
\* directory, the whole copy of the job asked for.
C9_OneStagedFile ==
    [][\A c \in Calls :
          Stages(c) /\ calls'[c].pc = "wait" =>
              cache' = [exists |-> TRUE,
                        files |-> {CacheFile(Basename(Normalized(calls'[c].arg)),
                                             Normalized(calls'[c].arg))}]]_vars

\* The second start_print has staged sub/b.gcode after the first staged
\* a.gcode: the cache holds b.gcode alone.
C9_Witness ==
    /\ calls[1].arg = <<"a.gcode">>
    /\ calls[1].staged
    /\ calls[1].outcome.kind # "raise"
    /\ calls[2].pc = "wait"
    /\ calls[2].arg = <<"", "sub", "b.gcode">>
    /\ cache.files = {CacheFile("b.gcode", <<"sub", "b.gcode">>)}

LowSpace == Event("server:gcode_response", LOW_SPACE_MSG, <<>>)

\* The staging of call c, made in this step, fails for lack of space with the
\* low-space event.
StagingFails(c) ==
    /\ calls'[c].pc = "done"
    /\ calls'[c].outcome = Raised(INSUFFICIENT)
    /\ events' = Append(events, LowSpace)
    /\ cache'.files = {}

\* The staging of call c, made in this step, copies the file with no error and
\* no low-space event.
StagingCopies(c) ==
    /\ calls'[c].pc = "wait"
    /\ calls'[c].outcome = Pending
    /\ Len(events') = Len(events) + 1
    /\ events'[Len(events')] # LowSpace
    /\ CacheFile(Basename(Normalized(calls'[c].arg)), Normalized(calls'[c].arg))
           \in cache'.files

\* C10 as claimed: the copy fails exactly when the free space is smaller than
\* the file size.
C10_FailsIffSmaller ==
    [][\A c \in Calls :
          Stages(c) =>
              IF free_space < StagedSize(c) THEN StagingFails(c) ELSE StagingCopies(c)]_vars

\* C10: the copy fails, with the low-space event, exactly when the free space
\* is smaller than or equal to the file size; otherwise the file is copied
\* with no error and no low-space event.
C10_FailsIffNotLarger ==
    [][\A c \in Calls :
          Stages(c) =>
              IF free_space <= StagedSize(c) THEN StagingFails(c) ELSE StagingCopies(c)]_vars

\* start_print("a.gcode") has failed for lack of space with the free space
\* equal to the size of the file.
C10_Witness ==
    \E c \in Calls :
        /\ Done(c)
        /\ calls[c].arg = <<"a.gcode">>
        /\ calls[c].outcome = Raised(INSUFFICIENT)
        /\ free_space = gcode_files[<<"a.gcode">>]
        /\ LowSpace \in ToSet(events)

\* The job reference of start_print(name), normalised, lies in the cache
\* directory.
InCache(name) == Len(Normalized(name)) > 1 /\ Normalized(name)[1] = CACHE_DIR

\* Call c hands its request to klippy.request in this step.
Dispatches(c) == calls[c].pc # "reply" /\ calls'[c].pc = "reply"

\* C11: a start_print whose normalised job reference has .cache as its first
\* segment leaves the cache directory as it is, sends no event and no
\* file-system call, and its request names the normalised reference itself.
C11_CachedJobUntouched ==
    [][\A c \in Calls :
          calls'[c].op = "start_print" /\ InCache(calls'[c].arg) =>
              /\ \A i \in 1..Len(trace'[c]) : trace'[c][i].kind = "request"
              /\ Starts(c) =>
                     /\ calls'[c].pc = "wait"
                     /\ UNCHANGED <<cache, events, trace>>
              /\ Dispatches(c) =>
                     /\ calls'[c].request =
                            Request(GCODE_ENDPOINT,
                                    Script("SDCARD_PRINT_FILE", Normalized(calls'[c].arg)))
                     /\ UNCHANGED <<cache, events>>]_vars

\* start_print(".cache/a.gcode") has sent its request naming .cache/a.gcode;
\* the file another job left in the cache is still there, no event was sent.
C11_Witness ==
    \E c \in Calls :
        /\ InFlight(c)
        /\ calls[c].arg = <<CACHE_DIR, "a.gcode">>
        /\ calls[c].request.params = Script("SDCARD_PRINT_FILE", <<CACHE_DIR, "a.gcode">>)
        /\ cache.files = {CacheFile("old.gcode", <<"old.gcode">>)}
        /\ events = <<>>

\* The requests call c has handed to klippy.request so far.
RequestsOf(c, log) == {i \in 1..Len(log[c]) : log[c][i].kind = "request"}

\* C12: when the gcode/script request of do_restart fails with the
\* "Klippy Disconnected" error the call returns "ok"; when it fails with any
\* other server error the call raises that error; either way the call ends
\* there, having sent its one request and no second one.
C12_RestartDisconnect ==
    [][\A c \in Calls, t \in Transports(GCODE_ENDPOINT) :
          GcodeReply(c, t) /\ calls[c].op = "do_restart" /\ ~t.ok =>
              /\ t.err = DISCONNECTED => calls'[c].outcome = Returned(Scalar("ok"))
              /\ t.err # DISCONNECTED => calls'[c].outcome = Raised(t.err)
              /\ calls'[c].pc = "done"
              /\ UNCHANGED <<sent, trace>>
              /\ Cardinality(RequestsOf(c, trace')) = 1]_vars

\* do_restart("FIRMWARE_RESTART") has returned "ok", which the except branch
\* alone produces, and do_restart("RESTART") has raised the other error; two
\* requests were sent in all.
C12_Witness ==
    \E c, d \in Calls :
        /\ Done(c)
        /\ calls[c].op = "do_restart"
        /\ calls[c].arg = <<"FIRMWARE_RESTART">>
        /\ calls[c].outcome = Returned(Scalar("ok"))
        /\ Done(d)
        /\ calls[d].arg = <<"RESTART">>
        /\ calls[d].outcome = Raised("Klippy Request Error")
        /\ Len(sent) = 2

\* C13: an operation called with a default other than the sentinel returns
\* that very default when its request fails, whatever the default is, a dict
\* with a status or an objects key included.
C13_DefaultReturnedAsIs ==
    [][\A c \in Calls, t \in AllTransports :
          FacadeReply(c, t) /\ ~t.ok /\ calls[c].default # SENTINEL =>
              calls'[c].outcome = Returned(calls[c].default)]_vars

\* Call c has invoked _send_klippy_request: it awaits the reply, or it is over
\* and was not ended by its staging or its readiness wait.
InvokedSend(c) ==
    \/ InFlight(c)
    \/ /\ Done(c)
       /\ calls[c].op \in {"start_print", "do_restart"} =>
              calls[c].started \in {"True", "False"}

\* C14: every invocation of _send_klippy_request hands exactly one request to
\* klippy.request, whether the request succeeds or fails, and no operation
\* sends again after a failure: the requests on record are as many as the
\* invocations, one per call that got that far.
C14_OneRequestPerSend ==
    /\ Len(sent) = Cardinality({c \in Calls : InvokedSend(c)})
    /\ \A c \in Calls :
           Cardinality(RequestsOf(c, trace)) = IF InvokedSend(c) THEN 1 ELSE 0

\* Two calls are over, one with the error of its failed request and one with
\* the default that replaced it; two requests were sent.
C14_Witness ==
    \E c, d \in Calls :
        /\ Done(c)
        /\ calls[c].outcome.kind = "raise"
        /\ Done(d)
        /\ calls[d].default = Scalar("None")
        /\ calls[d].outcome = Returned(Scalar("None"))
        /\ Len(sent) = 2

PauseOps == {"pause_print", "resume_print", "cancel_print"}

\* The event and the method the claim expects of each of the three.
RequestedEvent(op) ==
    CASE op = "pause_print" -> "klippy_apis:pause_requested"
      [] op = "resume_print" -> "klippy_apis:resume_requested"
      [] op = "cancel_print" -> "klippy_apis:cancel_requested"

PauseMethod(op) ==
    CASE op = "pause_print" -> "pause_resume/pause"
      [] op = "resume_print" -> "pause_resume/resume"
      [] op = "cancel_print" -> "pause_resume/cancel"

\* C15: every call of pause_print, resume_print and cancel_print, however it
\* ends, has sent its "<op>_requested" event exactly once, and sent it before
\* it handed its one pause_resume/<op> request, whose params are empty, to
\* klippy.request.
C15_RequestedBeforeDispatch ==
    \A c \in Calls :
        calls[c].op \in PauseOps =>
            /\ trace[c] = <<Step("event", RequestedEvent(calls[c].op), c),
                            Step("request", PauseMethod(calls[c].op), c)>>
            /\ Cardinality({i \in 1..Len(events) :
                                events[i].name = RequestedEvent(calls[c].op)})
                 = Cardinality({d \in Calls : calls[d].op = calls[c].op})
            /\ InFlight(c) =>
                   calls[c].request = Request(PauseMethod(calls[c].op), <<>>)

\* pause_print has raised the error of its failed request and cancel_print
\* has returned the default that replaced its failure: both events are out.
C15_Witness ==
    \E c, d \in Calls :
        /\ calls[c].op = "pause_print"
        /\ Done(c)
        /\ calls[c].outcome.kind = "raise"
        /\ calls[d].op = "cancel_print"
        /\ Done(d)
        /\ calls[d].default = Scalar("None")
        /\ calls[d].outcome = Returned(Scalar("None"))
        /\ {events[i].name : i \in 1..Len(events)} =
               {"klippy_apis:pause_requested", "klippy_apis:cancel_requested"}

\* What call c did to its collaborators, in order.
StepsOf(c, log) == log[c]

\* The file-system calls of a staging up to the copy.
RebuildSteps(c) ==
    <<Step("fs", "os.makedirs if missing", c), Step("fs", "shutil.rmtree", c),
      Step("fs", "os.makedirs", c)>>

\* The steps of a staging that copies, and its request at the end.
StagedSteps(c, filename) ==
    RebuildSteps(c)
    \o <<Step("fs", "shutil.copy", c),
         EventStep(c, Event("server:gcode_response", "// metadata=", filename)),
         Step("request", GCODE_ENDPOINT, c)>>

\* C16: a start_print for a job outside the cache directory removes the
\* cache directory, makes it again, copies the job file in, sends the metadata
\* event, awaits wait_started and only then hands over its gcode/script
\* request, which names .cache/<basename>, in this order; when the copy fails
\* for lack of space the call sends neither the metadata event nor a request.
C16_StagingOrder ==
    [][\A c \in Calls :
          calls'[c].op = "start_print" /\ ~InCache(calls'[c].arg) =>
              LET filename == Normalized(calls'[c].arg)
                  steps == StepsOf(c, trace')
              IN  /\ Starts(c) /\ calls'[c].pc = "wait" =>
                         /\ steps = SubSeq(StagedSteps(c, filename), 1, 5)
                         /\ CacheFile(Basename(filename), filename) \in cache'.files
                  /\ Dispatches(c) =>
                         /\ calls[c].pc = "wait"
                         /\ steps = StagedSteps(c, filename)
                         /\ calls'[c].request =
                                Request(GCODE_ENDPOINT,
                                        Script("SDCARD_PRINT_FILE",
                                               <<CACHE_DIR, Basename(filename)>>))
                  /\ calls'[c].outcome = Raised(INSUFFICIENT) =>
                         steps = RebuildSteps(c) \o <<EventStep(c, LowSpace)>>]_vars

\* start_print("/sub/b.gcode") has failed for lack of space without a request,
\* then start_print("a.gcode") has staged its file and sent the request naming
\* .cache/a.gcode: six steps on record for it, four for the failed call.
C16_Witness ==
    \E c, d \in Calls :
        /\ calls[c].arg = <<"", "sub", "b.gcode">>
        /\ calls[c].outcome = Raised(INSUFFICIENT)
        /\ Len(StepsOf(c, trace)) = 4
        /\ calls[d].arg = <<"a.gcode">>
        /\ InFlight(d)
        /\ calls[d].request.params = Script("SDCARD_PRINT_FILE", <<CACHE_DIR, "a.gcode">>)
        /\ Len(StepsOf(d, trace)) = 6
        /\ sent = <<GCODE_ENDPOINT>>

UnwrapOps == {"get_object_list", "query_objects", "subscribe_objects"}

\* The key the operation looks for in the reply.
UnwrapKey(op) == IF op = "get_object_list" THEN "objects" ELSE "status"

\* C17: when the request succeeds, query_objects and subscribe_objects return
\* the value under the reply's status key if the reply is a dict that has
\* one, and the reply itself otherwise; get_object_list does so with the
\* objects key.
C17_UnwrapReply ==
    [][\A c \in Calls, t \in AllTransports :
          /\ calls[c].op \in UnwrapOps
          /\ t.ok
          /\ FacadeReply(c, t) \/ SubscribeReply(c, t)
          => LET key == UnwrapKey(calls[c].op)
             IN  calls'[c].outcome =
                    Returned(IF t.reply.dict /\ t.reply[key] # NoKey
                             THEN Scalar(t.reply[key])
                             ELSE t.reply)]_vars

\* query_objects has returned the status of the dict it was answered with,
\* subscribe_objects the dict without a status key it was answered with.
C17_Witness ==
    \E c, d \in Calls :
        /\ calls[c].op = "query_objects"
        /\ calls[c].outcome = Returned(Scalar("reply.status"))
        /\ calls[d].op = "subscribe_objects"
        /\ calls[d].outcome = Returned(Dict("reply", NoKey, "reply.objects"))

\* C18: when start_print calls for jobs outside the cache directory overlap,
\* the cache directory holds, at the moment a call hands over its gcode/script
\* request, the whole copy of the file that request names.  Stated for the
\* dispatches made once the controller has started, no call having failed.
C18_StagedFileAtDispatch ==
    [][\A c \in Calls :
          /\ calls[c].op = "start_print"
          /\ calls[c].staged
          /\ klippy_state = "Started"
          /\ \A d \in Calls : calls[d].outcome.kind # "raise"
          /\ Dispatches(c)
          => \E f \in cache.files :
                /\ f.name = Basename(calls'[c].request.params.filename)
                /\ f.content # PARTIAL]_vars

\* The subscribe_objects call is over and its request failed: it raised the
\* error, or returned what its default unwraps to.
FailedSub(call) ==
    /\ call.op = "subscribe_objects"
    /\ call.pc = "done"
    /\ \/ call.outcome.kind = "raise"
       \/ /\ call.default # SENTINEL
          /\ call.outcome = Returned(Unwrap(call.default, "status"))

\* C19: the failure of a subscribe_objects request, propagated or replaced by
\* a default, leaves the registry as the call's merge made it, and the
\* request of a call made after the failure carries the registry, with all
\* that the failed call asked for.
C19_NoRollback ==
    [][\A c \in Calls :
          /\ InFlight(c) /\ FailedSub(calls'[c]) =>
                 /\ host_subscription' = host_subscription
                 /\ CoversAsked(host_subscription', asked)
          /\ Starts(c) /\ (\E d \in Calls : FailedSub(calls[d])) =>
                 /\ Covers(calls'[c].request.params, host_subscription)
                 /\ CoversAsked(calls'[c].request.params, asked)]_vars

\* The first call asked for the extruder and its request failed with an
\* error; the request of the second call carries the extruder and the
\* toolhead.
C19_Witness ==
    /\ FailedSub(calls[1])
    /\ calls[1].outcome.kind = "raise"
    /\ InFlight(2)
    /\ asked["extruder"].any
    /\ DOMAIN calls[2].request.params = {"extruder", "toolhead"}
    /\ DOMAIN host_subscription = {"extruder", "toolhead"}

====
